---------------------------- MODULE Spec2Model ----------------------------
(***************************************************************************)
(* koyori: a durable FIFO queue kept in a folder of segment files.        *)
(*                                                                         *)
(* The model follows src/queue.go (Queue) and src/unnamed/part_001 (the    *)
(* segment variant with a per-file capacity header, the one queue.go       *)
(* calls).  A segment file is a sequence of bytes; a segment instance is   *)
(* a record on a small heap, so that firstSegment and lastSegment can      *)
(* point to the same instance as the Go pointers do.                        *)
(***************************************************************************)
EXTENDS Integers, Sequences, FiniteSets, TLC

(***************************************************************************)
(* Bounds of the model.                                                    *)
(***************************************************************************)
MaxItems == 5       \* items enqueued over one behaviour
MaxCapacity == 2    \* MaxObjectsPerSegment ranges over 1..MaxCapacity
MaxBatch == 3       \* longest EnqueueMany list, largest DequeueMany count
MaxOpens == 1       \* Close / NewQueue cycles on the same folder
MaxPayload == 2     \* longest item, in bytes, added to a segment directly
MaxThreads == 2     \* threads calling the queue concurrently
MaxOps == 2         \* calls of one thread

(***************************************************************************)
(* Small helpers.                                                          *)
(***************************************************************************)
Min(a, b) == IF a < b THEN a ELSE b

Take(s, n) == SubSeq(s, 1, Min(n, Len(s)))

Drop(s, n) == SubSeq(s, Min(n, Len(s)) + 1, Len(s))

IsPrefix(s, t) == Len(s) <= Len(t) /\ SubSeq(t, 1, Len(s)) = s

SetMin(S) == CHOOSE x \in S : \A y \in S : x <= y

SetMax(S) == CHOOSE x \in S : \A y \in S : y <= x

(***************************************************************************)
(* Errors.  NoErr is Go's nil error.                                       *)
(***************************************************************************)
NoErr == "nil"
ErrEmpty == "queue is empty"
errEmptySegment == "segment is empty"
ErrFileClosed == "file already closed"
ErrNotExist == "no such file"
ErrEOF == "EOF"
ErrUnexpectedEOF == "unexpected EOF"
ErrCorrupt == "Found deletion marker, but no objects are left"

(***************************************************************************)
(* Items are short strings, a string being the sequence of its bytes.      *)
(* The test's StringConverter converts between string and []byte.          *)
(***************************************************************************)
Item(i) == <<i>>

(* The item numbered i as a string of 1 to MaxPayload bytes, never an empty one. *)
Payload(i) == [j \in 1 .. 1 + (i % MaxPayload) |-> i]

Marshal(obj) == [buf |-> obj, err |-> NoErr]

Unmarshal(buf) == [obj |-> buf, err |-> NoErr]

(***************************************************************************)
(* The converter is the host's, options.Converter: any implementation of   *)
(* Marshal may return an error.  Next to the StringConverter there is a    *)
(* strict converter, a StringConverter whose Marshal fails on one string.  *)
(***************************************************************************)
ErrMarshal == "marshal failed"

(* The string the strict converter does not marshal. *)
Invalid == << 0 >>

StrictMarshal(obj) ==
    IF obj = Invalid THEN [buf |-> << >>, err |-> ErrMarshal] ELSE Marshal(obj)

(* s.converter.Marshal(obj) *)
ConverterMarshal(converter, obj) ==
    IF converter = "StrictConverter" THEN StrictMarshal(obj) ELSE Marshal(obj)

(***************************************************************************)
(* encoding/binary.LittleEndian on 32-bit unsigned integers: the four     *)
(* low bytes of the value, least significant first.                        *)
(***************************************************************************)
PutUint32(v) ==
    << v % 256, (v \div 256) % 256, (v \div 65536) % 256, (v \div 16777216) % 256 >>

Uint32(b) == b[1] + 256 * b[2] + 65536 * b[3] + 16777216 * b[4]

(***************************************************************************)
(* io.ReadFull(file, buf) with len(buf) = n at offset pos (1-based):       *)
(* EOF when nothing is left, unexpected EOF on a short read.               *)
(***************************************************************************)
ReadFull(bytes, pos, n) ==
    IF pos + n - 1 <= Len(bytes)
    THEN [data |-> SubSeq(bytes, pos, pos + n - 1), err |-> NoErr]
    ELSE IF pos > Len(bytes)
         THEN [data |-> << >>, err |-> ErrEOF]
         ELSE [data |-> SubSeq(bytes, pos, Len(bytes)), err |-> ErrUnexpectedEOF]

(***************************************************************************)
(* The machine state threaded through the operations is a record m:        *)
(*   options       QueueOptions (MaxObjectsPerSegment)                     *)
(*   firstSegment  address of the head segment instance (0 = nil)          *)
(*   lastSegment   address of the tail segment instance (0 = nil)          *)
(*   segmentNumber Queue.segmentNumber                                     *)
(*   segs          the heap: address -> segment instance                   *)
(*   disk          the folder: segment number -> bytes of NNNNN.queue      *)
(*   unlinked      history: the numbers of the removed files               *)
(*   removals      history: the removals of the current call, each with    *)
(*                 the counts of the segment when its file was removed     *)
(*   recreated     history: numbers created again after being removed      *)
(*   created       history: file number -> capacity it was created with    *)
(*   synced        file number -> length of the prefix made durable by the *)
(*                 last Sync of the file                                   *)
(*   handles       the number of file handles the process holds open       *)
(*   trace         history: the appends, rollovers and head advances of    *)
(*                 the current call, in order                              *)
(***************************************************************************)
NilAddr == 0

Alloc(m) == SetMin((1 .. (Cardinality(DOMAIN m.segs) + 1)) \ DOMAIN m.segs)

Put(m, a, s) == [m EXCEPT !.segs = [x \in DOMAIN m.segs \cup {a} |-> IF x = a THEN s ELSE m.segs[x]]]

(* A segment's file handle appends to the file it was opened on. *)
FileWrite(m, a, bytes) ==
    LET s == m.segs[a]
    IN  IF s.file # "open"
        THEN [m |-> m, err |-> ErrFileClosed]
        ELSE IF s.segmentNumber \in DOMAIN m.disk
             THEN [m |-> [m EXCEPT !.disk[s.segmentNumber] = @ \o bytes], err |-> NoErr]
             ELSE [m |-> m, err |-> NoErr]

FileClose(m, a) ==
    IF m.segs[a].file # "open"
    THEN [m |-> m, err |-> ErrFileClosed]
    ELSE [m |-> [m EXCEPT !.segs[a].file = "closed", !.handles = @ - 1], err |-> NoErr]

(* os.File.Sync: the bytes written so far are durable. *)
FileSync(m, a) ==
    IF m.segs[a].file # "open"
    THEN [m |-> m, err |-> ErrFileClosed]
    ELSE IF m.segs[a].segmentNumber \in DOMAIN m.disk
    THEN [m |-> [m EXCEPT !.synced[m.segs[a].segmentNumber] =
                              Len(m.disk[m.segs[a].segmentNumber])],
          err |-> NoErr]
    ELSE [m |-> m, err |-> NoErr]

(***************************************************************************)
(* segment                                                                 *)
(*                                                                         *)
(* A function of the source is one operator here, with one more operator   *)
(* for what follows each of its calls that can fail: the operator named    *)
(* after the function is its entry.                                        *)
(***************************************************************************)
count(s) == Len(s.objects)

countOnDisk(s) == Len(s.objects) + s.removeCount

flushLocked(m, a) == FileSync(m, a)

RECURSIVE addMany(_, _, _)

(* after the write of the payload: append to objects, next object *)
addManyAppend(a, objects, w) ==
    IF w.err # NoErr THEN [m |-> w.m, err |-> w.err]
    ELSE addMany([w.m EXCEPT !.segs[a].objects = Append(@, Head(objects))], a, Tail(objects))

(* after the write of the length: write the payload *)
addManyPayload(a, objects, buf, w) ==
    IF w.err # NoErr THEN [m |-> w.m, err |-> w.err]
    ELSE addManyAppend(a, objects, FileWrite(w.m, a, buf))

(* An addMany that writes the length before it looks at the error of Marshal. *)
addManyLengthWriteFirst(m, a, objects, mar) ==
    IF mar.err # NoErr
    THEN [m |-> FileWrite(m, a, PutUint32(Len(mar.buf))).m, err |-> mar.err]
    ELSE addManyPayload(a, objects, mar.buf, FileWrite(m, a, PutUint32(Len(mar.buf))))

(* after Marshal: write the length *)
addManyLength(m, a, objects, mar) ==
    IF mar.err # NoErr THEN [m |-> m, err |-> mar.err]
    ELSE addManyPayload(a, objects, mar.buf, FileWrite(m, a, PutUint32(Len(mar.buf))))

addMany(m, a, objects) ==
    IF objects = << >>
    THEN IF m.options.AlwaysFlush THEN flushLocked(m, a) ELSE [m |-> m, err |-> NoErr]
    ELSE addManyLength(m, a, objects, ConverterMarshal(m.options.Converter, Head(objects)))

add(m, a, object) == addMany(m, a, << object >>)

(* after flushLocked: the popped object is returned with the error of the flush *)
removeFlushed(popped, f) == [m |-> f.m, item |-> popped, ok |-> TRUE, err |-> f.err]

(* with removeCount incremented *)
removeCounted(m, a, popped) ==
    IF m.options.AlwaysFlush THEN removeFlushed(popped, flushLocked(m, a))
    ELSE [m |-> m, item |-> popped, ok |-> TRUE, err |-> NoErr]

(* after the write of the deletion marker *)
removeWritten(a, popped, w) ==
    IF w.err # NoErr
    THEN [m |-> w.m, item |-> << >>, ok |-> FALSE, err |-> w.err]
    ELSE removeCounted([w.m EXCEPT !.segs[a].removeCount = @ + 1], a, popped)

(* A remove that pops the newest object instead of the oldest. *)
removeNewest(m, a) ==
    IF Len(m.segs[a].objects) = 0
    THEN [m |-> m, item |-> << >>, ok |-> FALSE, err |-> errEmptySegment]
    ELSE removeWritten(a, m.segs[a].objects[Len(m.segs[a].objects)],
                       FileWrite([m EXCEPT !.segs[a].objects = SubSeq(@, 1, Len(@) - 1)],
                                 a, << 0, 0, 0, 0 >>))

remove(m, a) ==
    IF Len(m.segs[a].objects) = 0
    THEN [m |-> m, item |-> << >>, ok |-> FALSE, err |-> errEmptySegment]
    ELSE removeWritten(a, m.segs[a].objects[1],
                       FileWrite([m EXCEPT !.segs[a].objects = Tail(@)], a, << 0, 0, 0, 0 >>))

(* after flushLocked: the popped objects are returned with the error of the flush *)
removeManyFlushed(popped, f) == [m |-> f.m, items |-> popped, err |-> f.err]

(* with removeCount increased *)
removeManyCounted(m, a, popped) ==
    IF m.options.AlwaysFlush THEN removeManyFlushed(popped, flushLocked(m, a))
    ELSE [m |-> m, items |-> popped, err |-> NoErr]

(* after the write of the deletion markers *)
removeManyWritten(a, removeCount, popped, w) ==
    IF w.err # NoErr
    THEN [m |-> w.m, items |-> << >>, err |-> w.err]
    ELSE removeManyCounted([w.m EXCEPT !.segs[a].removeCount = @ + removeCount], a, popped)

(* A removeMany that writes one deletion marker whatever the number of objects popped. *)
removeManyPopOneMarker(m, a, removeCount) ==
    removeManyWritten(a, removeCount, SubSeq(m.segs[a].objects, 1, removeCount),
                      FileWrite([m EXCEPT !.segs[a].objects = SubSeq(@, removeCount + 1, Len(@))],
                                a, << 0, 0, 0, 0 >>))

(* with removeCount = min(count, len(objects)) *)
removeManyPop(m, a, removeCount) ==
    removeManyWritten(a, removeCount, SubSeq(m.segs[a].objects, 1, removeCount),
                      FileWrite([m EXCEPT !.segs[a].objects = SubSeq(@, removeCount + 1, Len(@))],
                                a, [i \in 1 .. 4 * removeCount |-> 0]))

removeMany(m, a, cnt) ==
    IF Len(m.segs[a].objects) = 0
    THEN [m |-> m, items |-> << >>, err |-> errEmptySegment]
    ELSE removeManyPop(m, a, IF cnt > Len(m.segs[a].objects) THEN Len(m.segs[a].objects)
                                                              ELSE cnt)

(***************************************************************************)
(* segment.load: the scan of a segment file.  The 4-byte header is the     *)
(* capacity; then frames: a length of 0 is a deletion marker that pops the *)
(* front object, any other length is followed by that many payload bytes.  *)
(***************************************************************************)
(* A scan whose deletion markers are counted but pop no object. *)
RECURSIVE loadFramesKeep(_, _, _, _)
loadFramesKeep(bytes, pos, objects, removeCount) ==
    LET lengthBuf == ReadFull(bytes, pos, 4)
        length == Uint32(lengthBuf.data)
        buf == ReadFull(bytes, pos + 4, length)
    IN  IF lengthBuf.err = ErrEOF
        THEN [objects |-> objects, removeCount |-> removeCount, err |-> NoErr]
        ELSE IF lengthBuf.err # NoErr
        THEN [objects |-> objects, removeCount |-> removeCount, err |-> lengthBuf.err]
        ELSE IF length = 0
        THEN loadFramesKeep(bytes, pos + 4, objects, removeCount + 1)
        ELSE IF buf.err # NoErr
        THEN [objects |-> objects, removeCount |-> removeCount, err |-> buf.err]
        ELSE loadFramesKeep(bytes, pos + 4 + length, Append(objects, Unmarshal(buf.data).obj),
                            removeCount)

RECURSIVE loadFrames(_, _, _, _)
loadFrames(bytes, pos, objects, removeCount) ==
    LET lengthBuf == ReadFull(bytes, pos, 4)
        length == Uint32(lengthBuf.data)
        buf == ReadFull(bytes, pos + 4, length)
        un  == Unmarshal(buf.data)
    IN  IF lengthBuf.err = ErrEOF
        THEN [objects |-> objects, removeCount |-> removeCount, err |-> NoErr]
        ELSE IF lengthBuf.err # NoErr
        THEN [objects |-> objects, removeCount |-> removeCount, err |-> lengthBuf.err]
        ELSE IF length = 0
        THEN IF Len(objects) = 0
             THEN [objects |-> objects, removeCount |-> removeCount, err |-> ErrCorrupt]
             ELSE loadFrames(bytes, pos + 4, Tail(objects), removeCount + 1)
        ELSE IF buf.err # NoErr
        THEN [objects |-> objects, removeCount |-> removeCount, err |-> buf.err]
        ELSE IF un.err # NoErr
        THEN [objects |-> objects, removeCount |-> removeCount, err |-> un.err]
        ELSE loadFrames(bytes, pos + 4 + length, Append(objects, un.obj), removeCount)

(* after the scan of the frames *)
segmentLoadScanned(capacity, fr) ==
    [seg |-> [capacity |-> capacity, objects |-> fr.objects, removeCount |-> fr.removeCount],
     err |-> fr.err]

(* after the read of the header *)
segmentLoadHeader(bytes, capacityBuf) ==
    IF capacityBuf.err # NoErr
    THEN [seg |-> [capacity |-> 0, objects |-> << >>, removeCount |-> 0],
          err |-> capacityBuf.err]
    ELSE segmentLoadScanned(Uint32(capacityBuf.data), loadFrames(bytes, 5, << >>, 0))

(* segment.load on the file numbered n of folder disk; the read-only handle is closed on return. *)
segmentLoad(disk, n) ==
    IF n \notin DOMAIN disk
    THEN [seg |-> [capacity |-> 0, objects |-> << >>, removeCount |-> 0], err |-> ErrNotExist]
    ELSE segmentLoadHeader(disk[n], ReadFull(disk[n], 1, 4))

(* segment.close *)
segmentClose(m, a) == FileClose(m, a)

(* A deleteSegment that closes the handle and leaves the file in the folder. *)
deleteSegmentKeepFile(m, a) ==
    LET s == m.segs[a]
        c == FileClose(m, a)
    IN  IF c.err # NoErr THEN [m |-> c.m, err |-> c.err]
        ELSE [m |-> [c.m EXCEPT
                       !.unlinked = @ \cup {s.segmentNumber},
                       !.removals = @ \cup {[segmentNumber |-> s.segmentNumber,
                                              count |-> count(s),
                                              countOnDisk |-> countOnDisk(s),
                                              capacity |-> s.capacity]}],
              err |-> NoErr]

(* segment.deleteSegment: close the handle, then remove the file. *)
deleteSegment(m, a) ==
    LET s == m.segs[a]
        c == FileClose(m, a)
    IN  IF c.err # NoErr THEN [m |-> c.m, err |-> c.err]
        ELSE IF s.segmentNumber \notin DOMAIN c.m.disk THEN [m |-> c.m, err |-> ErrNotExist]
        ELSE [m |-> [c.m EXCEPT
                       !.disk = [x \in DOMAIN c.m.disk \ {s.segmentNumber} |-> c.m.disk[x]],
                       !.synced = [x \in DOMAIN c.m.synced \ {s.segmentNumber} |->
                                     c.m.synced[x]],
                       !.unlinked = @ \cup {s.segmentNumber},
                       !.removals = @ \cup {[segmentNumber |-> s.segmentNumber,
                                              count |-> count(s),
                                              countOnDisk |-> countOnDisk(s),
                                              capacity |-> s.capacity]}],
              err |-> NoErr]

(* after the write of the header *)
newSegmentWritten(a, w) == [m |-> w.m, a |-> a, err |-> w.err]

(* with the instance at address a: create or truncate the file, write the capacity header *)
newSegmentAt(m, capacity, segmentNumber, a) ==
    newSegmentWritten(a,
        FileWrite(Put([m EXCEPT
                         !.disk = [x \in DOMAIN m.disk \cup {segmentNumber} |->
                                     IF x = segmentNumber THEN << >> ELSE m.disk[x]],
                         !.recreated = IF segmentNumber \in m.unlinked
                                       THEN @ \cup {segmentNumber} ELSE @,
                         !.created = [x \in DOMAIN m.created \cup {segmentNumber} |->
                                        IF x = segmentNumber THEN capacity ELSE m.created[x]],
                         !.synced = [x \in DOMAIN m.synced \cup {segmentNumber} |->
                                       IF x = segmentNumber THEN 0 ELSE m.synced[x]],
                         !.handles = @ + 1],
                      a,
                      [capacity |-> capacity, segmentNumber |-> segmentNumber,
                       file |-> "open", removeCount |-> 0, objects |-> << >>]),
                  a, PutUint32(capacity)))

newSegment(m, capacity, segmentNumber) == newSegmentAt(m, capacity, segmentNumber, Alloc(m))

(* A readSegment that takes the capacity from the options, not from the file. *)
readSegmentOptionCapacityLoaded(m, segmentNumber, a, l) ==
    IF l.err # NoErr
    THEN [m |-> m, a |-> NilAddr, err |-> l.err]
    ELSE [m |-> Put([m EXCEPT !.handles = @ + 1], a,
                          [capacity |-> m.options.MaxObjectsPerSegment,
                           segmentNumber |-> segmentNumber,
                           file |-> "open", removeCount |-> l.seg.removeCount,
                           objects |-> l.seg.objects]),
          a |-> a, err |-> NoErr]

readSegmentOptionCapacity(m, segmentNumber) ==
    readSegmentOptionCapacityLoaded(m, segmentNumber, Alloc(m), segmentLoad(m.disk, segmentNumber))

(* after load: reopen the file for appending *)
readSegmentLoaded(m, segmentNumber, a, l) ==
    IF l.err # NoErr
    THEN [m |-> m, a |-> NilAddr, err |-> l.err]
    ELSE [m |-> Put([m EXCEPT !.handles = @ + 1], a,
                          [capacity |-> l.seg.capacity, segmentNumber |-> segmentNumber,
                           file |-> "open", removeCount |-> l.seg.removeCount,
                           objects |-> l.seg.objects]),
          a |-> a, err |-> NoErr]

readSegment(m, segmentNumber) ==
    readSegmentLoaded(m, segmentNumber, Alloc(m), segmentLoad(m.disk, segmentNumber))

(***************************************************************************)
(* Queue                                                                   *)
(***************************************************************************)
head(m) == m.segs[m.firstSegment]

tail(m) == m.segs[m.lastSegment]

segmentCount(m) == tail(m).segmentNumber - head(m).segmentNumber + 1

Ok(m) == [m |-> m, err |-> NoErr]

(***************************************************************************)
(* History of the current call, written where the code appends to the     *)
(* tail, rolls over and advances the head.                                 *)
(***************************************************************************)
EmptyTrace == [start |-> 0, appends |-> << >>, rollovers |-> << >>, advances |-> << >>]

(* The history of a call entered with segmentNumber = number. *)
TraceFrom(number) == [EmptyTrace EXCEPT !.start = number]

(* lastSegment.add / addMany is about to be called *)
Appending(m) ==
    [m EXCEPT !.trace.appends =
        Append(@, [segmentNumber |-> tail(m).segmentNumber,
                   countOnDisk |-> countOnDisk(tail(m)),
                   capacity |-> tail(m).capacity])]

(* addSegmentLocked is entered *)
RolloverBegins(m) ==
    [m EXCEPT !.trace.rollovers =
        Append(@, [countOnDisk |-> countOnDisk(tail(m)), capacity |-> tail(m).capacity,
                   tail |-> tail(m).segmentNumber, head |-> m.firstSegment,
                   same |-> m.firstSegment = m.lastSegment,
                   segmentNumber |-> m.segmentNumber,
                   done |-> FALSE, newTail |-> 0, newTailCount |-> 0, headAfter |-> NilAddr,
                   headFile |-> "", segmentNumberAfter |-> 0])]

(* addSegmentLocked returns nil *)
RolloverEnds(m) ==
    [m EXCEPT !.trace.rollovers[Len(m.trace.rollovers)] =
        [@ EXCEPT !.done = TRUE, !.newTail = tail(m).segmentNumber,
                  !.newTailCount = countOnDisk(tail(m)), !.headAfter = m.firstSegment,
                  !.headFile = head(m).file, !.segmentNumberAfter = m.segmentNumber]]

(* closeFullFirstSegment has deleted the head's file *)
AdvanceBegins(m) ==
    [m EXCEPT !.trace.advances =
        Append(@, [N |-> head(m).segmentNumber, K |-> segmentCount(m),
                   gone |-> head(m).segmentNumber \notin DOMAIN m.disk,
                   tail |-> m.lastSegment, tailNumber |-> tail(m).segmentNumber,
                   segmentNumber |-> m.segmentNumber,
                   done |-> FALSE, headAfter |-> NilAddr, headNumber |-> 0,
                   headSegment |-> << >>, loaded |-> << >>, tailAfter |-> NilAddr,
                   segmentNumberAfter |-> 0])]

(* closeFullFirstSegment returns nil *)
AdvanceEnds(m) ==
    [m EXCEPT !.trace.advances[Len(m.trace.advances)] =
        [@ EXCEPT !.done = TRUE, !.headAfter = m.firstSegment,
                  !.headNumber = head(m).segmentNumber,
                  !.headSegment = << head(m) >>,
                  !.loaded = << segmentLoad(m.disk, head(m).segmentNumber) >>,
                  !.tailAfter = m.lastSegment, !.segmentNumberAfter = m.segmentNumber]]

(* after newSegment: the new segment is the tail *)
addSegmentLockedNew(ns) ==
    IF ns.err # NoErr THEN [m |-> ns.m, err |-> ns.err]
    ELSE [m |-> RolloverEnds([ns.m EXCEPT !.segmentNumber = @ + 1, !.lastSegment = ns.a]),
          err |-> NoErr]

(* after the close of the old tail *)
addSegmentLockedClosed(c) ==
    IF c.err # NoErr THEN [m |-> c.m, err |-> c.err]
    ELSE addSegmentLockedNew(newSegment(c.m, c.m.options.MaxObjectsPerSegment,
                                        c.m.segmentNumber + 1))

(* An addSegmentLocked that closes the old tail also when it is the head. *)
addSegmentLockedAlwaysClose(m) == addSegmentLockedClosed(segmentClose(m, m.lastSegment))

(* An addSegmentLocked that never closes the old tail. *)
addSegmentLockedNeverClose(m) == addSegmentLockedClosed(Ok(m))

(* with the rollover noted in the history *)
addSegmentLockedBegun(m) ==
    addSegmentLockedClosed(IF segmentCount(m) > 1 THEN segmentClose(m, m.lastSegment)
                                                   ELSE Ok(m))

addSegmentLocked(m) == addSegmentLockedBegun(RolloverBegins(m))

(* segmentCount() == 1, after newSegment: the new segment is head and tail *)
closeFullFirstSegmentNew(ns) ==
    IF ns.err # NoErr THEN [m |-> ns.m, err |-> ns.err]
    ELSE [m |-> AdvanceEnds([ns.m EXCEPT !.segmentNumber = @ + 1, !.firstSegment = ns.a,
                                         !.lastSegment = ns.a]),
          err |-> NoErr]

(* segmentCount() > 2, after readSegment: the segment read is the head *)
closeFullFirstSegmentRead(rs) ==
    IF rs.err # NoErr THEN [m |-> rs.m, err |-> rs.err]
    ELSE [m |-> AdvanceEnds([rs.m EXCEPT !.firstSegment = rs.a]), err |-> NoErr]

(* A closeFullFirstSegment that restarts the numbering at 1 once the only segment is drained. *)
closeFullFirstSegmentRenumberNew(ns) ==
    IF ns.err # NoErr THEN [m |-> ns.m, err |-> ns.err]
    ELSE [m |-> [ns.m EXCEPT !.segmentNumber = 1, !.firstSegment = ns.a, !.lastSegment = ns.a],
          err |-> NoErr]

closeFullFirstSegmentRenumberDeleted(d) ==
    IF d.err # NoErr THEN [m |-> d.m, err |-> d.err]
    ELSE IF segmentCount(d.m) = 1
    THEN closeFullFirstSegmentRenumberNew(newSegment(d.m, d.m.options.MaxObjectsPerSegment, 1))
    ELSE IF segmentCount(d.m) = 2
    THEN [m |-> [d.m EXCEPT !.firstSegment = d.m.lastSegment], err |-> NoErr]
    ELSE closeFullFirstSegmentRead(readSegment(d.m, head(d.m).segmentNumber + 1))

closeFullFirstSegmentRenumber(m) ==
    closeFullFirstSegmentRenumberDeleted(deleteSegment(m, m.firstSegment))

(* A case split that reads segment N+1 from its file also when it is the tail. *)
closeFullFirstSegmentCaseReload(m) ==
    IF segmentCount(m) = 1
    THEN closeFullFirstSegmentNew(newSegment(m, m.options.MaxObjectsPerSegment,
                                             m.segmentNumber + 1))
    ELSE closeFullFirstSegmentRead(readSegment(m, head(m).segmentNumber + 1))

(* with the head's file deleted: the three cases of segmentCount() *)
closeFullFirstSegmentCase(m) ==
    IF segmentCount(m) = 1
    THEN closeFullFirstSegmentNew(newSegment(m, m.options.MaxObjectsPerSegment,
                                             m.segmentNumber + 1))
    ELSE IF segmentCount(m) = 2
    THEN [m |-> AdvanceEnds([m EXCEPT !.firstSegment = m.lastSegment]), err |-> NoErr]
    ELSE closeFullFirstSegmentRead(readSegment(m, head(m).segmentNumber + 1))

(* after deleteSegment *)
closeFullFirstSegmentDeleted(d) ==
    IF d.err # NoErr THEN [m |-> d.m, err |-> d.err]
    ELSE closeFullFirstSegmentCase(AdvanceBegins(d.m))

closeFullFirstSegment(m) == closeFullFirstSegmentDeleted(deleteSegment(m, m.firstSegment))

(* after the rollover check *)
EnqueueAdd(item, r) ==
    IF r.err # NoErr THEN r ELSE add(Appending(r.m), r.m.lastSegment, item)

(* An Enqueue that rolls over one item before the tail is at capacity. *)
EnqueueEarlyRollover(m, item) ==
    EnqueueAdd(item, IF countOnDisk(tail(m)) + 1 >= tail(m).capacity THEN addSegmentLocked(m)
                                                                     ELSE Ok(m))

(* An Enqueue without the rollover check. *)
EnqueueNoRollover(m, item) == EnqueueAdd(item, Ok(m))

(* the rollover check *)
EnqueueRollover(m) ==
    IF countOnDisk(tail(m)) >= tail(m).capacity THEN addSegmentLocked(m) ELSE Ok(m)

Enqueue(m, item) == EnqueueAdd(item, EnqueueRollover(m))

RECURSIVE EnqueueMany(_, _)

(* after the rollover check: next round of the loop *)
EnqueueManyNext(items, ro) == IF ro.err # NoErr THEN ro ELSE EnqueueMany(ro.m, items)

(* An EnqueueMany that leaves the rollover to the next call when the batch is over. *)
EnqueueManyAddedLazy(items, ad) ==
    IF ad.err # NoErr THEN ad
    ELSE EnqueueManyNext(items, IF countOnDisk(tail(ad.m)) >= tail(ad.m).capacity
                                   /\ Len(items) > 0
                                THEN addSegmentLocked(ad.m)
                                ELSE Ok(ad.m))

(* after addMany: roll over when the tail is at capacity *)
EnqueueManyAdded(items, ad) ==
    IF ad.err # NoErr THEN ad
    ELSE EnqueueManyNext(items, IF countOnDisk(tail(ad.m)) >= tail(ad.m).capacity
                                THEN addSegmentLocked(ad.m)
                                ELSE Ok(ad.m))

(* An EnqueueMany that appends one item a round and rolls over after each. *)
EnqueueManyRollEachAdded(items, ad) ==
    IF ad.err # NoErr THEN ad ELSE EnqueueManyNext(items, addSegmentLocked(ad.m))

EnqueueManyRollEach(m, items) ==
    IF Len(items) = 0 THEN Ok(m)
    ELSE EnqueueManyRollEachAdded(Tail(items),
                                  addMany(Appending(m), m.lastSegment, << Head(items) >>))

(* with enqueueCount = min(len(items), capacity - countOnDisk()) *)
EnqueueManyRound(m, items, enqueueCount) ==
    IF enqueueCount > 0
    THEN EnqueueManyAdded(SubSeq(items, enqueueCount + 1, Len(items)),
                          addMany(Appending(m), m.lastSegment, SubSeq(items, 1, enqueueCount)))
    ELSE EnqueueManyAdded(items, Ok(m))

EnqueueMany(m, items) ==
    IF Len(items) = 0 THEN Ok(m)
    ELSE EnqueueManyRound(m, items,
             IF tail(m).capacity - countOnDisk(tail(m)) < Len(items)
             THEN tail(m).capacity - countOnDisk(tail(m))
             ELSE Len(items))

(* after closeFullFirstSegment *)
DequeueAdvanced(item, c) == [m |-> c.m, item |-> item, ok |-> TRUE, err |-> c.err]

(* after remove *)
DequeueRemoved(r) ==
    IF r.err # NoErr
    THEN [m |-> r.m, item |-> << >>, ok |-> FALSE,
          err |-> IF r.err = errEmptySegment THEN ErrEmpty ELSE r.err]
    ELSE IF count(head(r.m)) > 0
    THEN [m |-> r.m, item |-> r.item, ok |-> TRUE, err |-> NoErr]
    ELSE IF countOnDisk(head(r.m)) >= head(r.m).capacity
    THEN DequeueAdvanced(r.item, closeFullFirstSegment(r.m))
    ELSE [m |-> r.m, item |-> r.item, ok |-> TRUE, err |-> NoErr]

(* A Dequeue that never advances past a drained head. *)
DequeueNoAdvanceRemoved(r) ==
    IF r.err # NoErr
    THEN [m |-> r.m, item |-> << >>, ok |-> FALSE,
          err |-> IF r.err = errEmptySegment THEN ErrEmpty ELSE r.err]
    ELSE [m |-> r.m, item |-> r.item, ok |-> TRUE, err |-> NoErr]

DequeueNoAdvance(m) == DequeueNoAdvanceRemoved(remove(m, m.firstSegment))

Dequeue(m) == DequeueRemoved(remove(m, m.firstSegment))

RECURSIVE Flatten(_)
Flatten(results) ==
    IF results = << >> THEN << >> ELSE Head(results) \o Flatten(Tail(results))

(* The for loop of DequeueMany; returned says the loop ended in a return. *)
RECURSIVE DequeueManyLoop(_, _, _)

(* after closeFullFirstSegment in the loop *)
DequeueManyLoopAdvanced(cnt, results, c) ==
    IF c.err # NoErr
    THEN [m |-> c.m, results |-> << >>, returned |-> TRUE, err |-> c.err]
    ELSE DequeueManyLoop(c.m, cnt, results)

(* after removeMany *)
DequeueManyLoopRemoved(cnt, results, r) ==
    IF r.err # NoErr
    THEN IF r.err = errEmptySegment
         THEN [m |-> r.m, results |-> results, returned |-> FALSE, err |-> NoErr]
         ELSE [m |-> r.m, results |-> << >>, returned |-> TRUE, err |-> r.err]
    ELSE IF cnt - Len(r.items) = 0 \/ Len(r.items) = 0
            \/ countOnDisk(head(r.m)) < head(r.m).capacity
    THEN [m |-> r.m, results |-> Append(results, r.items), returned |-> FALSE, err |-> NoErr]
    ELSE DequeueManyLoopAdvanced(cnt - Len(r.items), Append(results, r.items),
                                 closeFullFirstSegment(r.m))

(* A loop that stops after the first segment it removes from. *)
DequeueManyLoopOnceRemoved(results, r) ==
    IF r.err # NoErr
    THEN IF r.err = errEmptySegment
         THEN [m |-> r.m, results |-> results, returned |-> FALSE, err |-> NoErr]
         ELSE [m |-> r.m, results |-> << >>, returned |-> TRUE, err |-> r.err]
    ELSE [m |-> r.m, results |-> Append(results, r.items), returned |-> FALSE, err |-> NoErr]

DequeueManyLoopOnce(m, cnt, results) ==
    DequeueManyLoopOnceRemoved(results, removeMany(m, m.firstSegment, cnt))

DequeueManyLoop(m, cnt, results) ==
    DequeueManyLoopRemoved(cnt, results, removeMany(m, m.firstSegment, cnt))

(* after closeFullFirstSegment behind the loop *)
DequeueManyAdvanced(results, c) ==
    IF c.err # NoErr THEN [m |-> c.m, items |-> << >>, err |-> c.err]
    ELSE [m |-> c.m, items |-> Flatten(results), err |-> NoErr]

(* A check after the loop that advances every head left without a live item. *)
DequeueManyLoopedEager(l) ==
    IF l.returned THEN [m |-> l.m, items |-> << >>, err |-> l.err]
    ELSE IF count(head(l.m)) = 0
    THEN DequeueManyAdvanced(l.results, closeFullFirstSegment(l.m))
    ELSE [m |-> l.m, items |-> Flatten(l.results), err |-> NoErr]

(* after the loop *)
DequeueManyLooped(l) ==
    IF l.returned THEN [m |-> l.m, items |-> << >>, err |-> l.err]
    ELSE IF countOnDisk(head(l.m)) >= head(l.m).capacity
    THEN DequeueManyAdvanced(l.results, closeFullFirstSegment(l.m))
    ELSE [m |-> l.m, items |-> Flatten(l.results), err |-> NoErr]

DequeueMany(m, cnt) == DequeueManyLooped(DequeueManyLoop(m, cnt, << >>))

(* after the close of the head *)
CloseFirst(c) == IF c.err # NoErr THEN c ELSE segmentClose(c.m, c.m.lastSegment)

Close(m) == CloseFirst(segmentClose(m, m.firstSegment))

(* loadSegmentRanges: the least and greatest file number and the number of files. *)
MaxInt32 == 2147483647

loadSegmentRanges(m) ==
    [min |-> IF DOMAIN m.disk = {} THEN MaxInt32 ELSE SetMin(DOMAIN m.disk),
     max |-> IF DOMAIN m.disk = {} THEN 0 ELSE SetMax(DOMAIN m.disk),
     count |-> Cardinality(DOMAIN m.disk)]

(* after newSegment or readSegment of the only segment: it is head and tail *)
loadOne(number, s) ==
    IF s.err # NoErr THEN [m |-> s.m, err |-> s.err]
    ELSE [m |-> [s.m EXCEPT !.segmentNumber = number, !.firstSegment = s.a,
                            !.lastSegment = s.a],
          err |-> NoErr]

(* after readSegment of the greatest number *)
loadLast(r, firstAddr, rl) ==
    IF rl.err # NoErr THEN [m |-> rl.m, err |-> rl.err]
    ELSE [m |-> [rl.m EXCEPT !.segmentNumber = r.max, !.firstSegment = firstAddr,
                             !.lastSegment = rl.a],
          err |-> NoErr]

(* after readSegment of the least number *)
loadFirst(r, rf) ==
    IF rf.err # NoErr THEN [m |-> rf.m, err |-> rf.err]
    ELSE loadLast(r, rf.a, readSegment(rf.m, r.max))

(* A load that reads the least and the greatest number apart even when they are one file. *)
loadRangesTwice(m, r) ==
    IF r.count = 0 THEN loadOne(1, newSegment(m, m.options.MaxObjectsPerSegment, 1))
    ELSE loadFirst(r, readSegment(m, r.min))

(* with the result of loadSegmentRanges *)
loadRanges(m, r) ==
    IF r.count = 0 THEN loadOne(1, newSegment(m, m.options.MaxObjectsPerSegment, 1))
    ELSE IF r.count = 1 THEN loadOne(r.min, readSegment(m, r.min))
    ELSE loadFirst(r, readSegment(m, r.min))

load(m) == loadRanges(m, loadSegmentRanges(m))

(* NewQueue on a folder: a zero Queue with the options, then load. *)
NewQueue(folder, options) ==
    load([options |-> options, firstSegment |-> NilAddr, lastSegment |-> NilAddr,
          segmentNumber |-> 0, segs |-> << >>, disk |-> folder.disk,
          unlinked |-> folder.unlinked, removals |-> {}, recreated |-> folder.recreated,
          created |-> folder.created, synced |-> folder.synced, handles |-> folder.handles,
          trace |-> EmptyTrace])

(***************************************************************************)
(* The queue's content: the live items of segments head..tail in order.    *)
(* Head and tail are the instances in memory, a segment between them is    *)
(* what loading its file gives.                                            *)
(***************************************************************************)
SegmentItems(m, n) ==
    IF n = head(m).segmentNumber THEN head(m).objects
    ELSE IF n = tail(m).segmentNumber THEN tail(m).objects
    ELSE segmentLoad(m.disk, n).seg.objects

RECURSIVE LiveFrom(_, _)
LiveFrom(m, n) ==
    IF n > tail(m).segmentNumber THEN << >> ELSE SegmentItems(m, n) \o LiveFrom(m, n + 1)

LiveItems(m) == LiveFrom(m, head(m).segmentNumber)

(* Instances no pointer of the queue reaches are collected. *)
Collect(m) ==
    [m EXCEPT !.segs = [x \in DOMAIN m.segs \cap {m.firstSegment, m.lastSegment} |-> m.segs[x]]]

(***************************************************************************)
(* The reference run: every batch call replaced by single calls.           *)
(***************************************************************************)
RECURSIVE EnqueueEach(_, _)

EnqueueEachNext(items, r) == IF r.err # NoErr THEN r ELSE EnqueueEach(r.m, items)

EnqueueEach(m, items) ==
    IF items = << >> THEN Ok(m) ELSE EnqueueEachNext(Tail(items), Enqueue(m, Head(items)))

RECURSIVE DequeueEach(_, _)

DequeueEachRest(item, rest) == [m |-> rest.m, items |-> << item >> \o rest.items]

DequeueEachNext(cnt, r) ==
    IF ~r.ok THEN [m |-> r.m, items |-> << >>]
    ELSE DequeueEachRest(r.item, DequeueEach(r.m, cnt))

DequeueEach(m, cnt) ==
    IF cnt = 0 THEN [m |-> m, items |-> << >>] ELSE DequeueEachNext(cnt - 1, Dequeue(m))

(***************************************************************************)
(* State.                                                                  *)
(***************************************************************************)
VARIABLES
    options,        \* Queue.options
    firstSegment,   \* Queue.firstSegment
    lastSegment,    \* Queue.lastSegment
    segmentNumber,  \* Queue.segmentNumber
    segs,           \* the segment instances
    disk,           \* the folder
    unlinked,       \* history: numbers of the removed files
    removals,       \* history: the removals of the last call
    recreated,      \* history: numbers created again after removal
    created,        \* history: file number -> capacity it was created with
    synced,         \* file number -> length of its durable prefix
    handles,        \* number of open file handles
    trace,          \* history: appends, rollovers and head advances of the last call
    isOpen,         \* the queue was opened and not yet closed
    opens,          \* number of re-opens so far
    nextItem,       \* the next item to enqueue
    enqueued,       \* items of the successful enqueues, in order
    dequeued,       \* items returned by the dequeues, in order
    last,           \* the last call: operation, argument, content before, results, error
    ref,            \* << m >>, the reference run's machine, or << >> without one
    refDequeued,    \* items returned by the reference run's dequeues
    reopened,       \* << [content, got] >> while only Dequeue was called since a
                    \* re-open: the content before the Close, the items got since
    mutex,          \* Queue.mutex: the thread holding it, or 0
    threads         \* the calling threads: where each is in its call, and the history
                    \* of their calls

vars == << options, firstSegment, lastSegment, segmentNumber, segs, disk, unlinked, removals,
           recreated, created, synced, handles, trace, isOpen, opens, nextItem, enqueued,
           dequeued, last, ref, refDequeued, reopened, mutex, threads >>

M == [options |-> options, firstSegment |-> firstSegment, lastSegment |-> lastSegment,
      segmentNumber |-> segmentNumber, segs |-> segs, disk |-> disk, unlinked |-> unlinked,
      removals |-> removals, recreated |-> recreated, created |-> created,
      synced |-> synced, handles |-> handles, trace |-> trace]

(* The machine at the start of a call. *)
Entry(m) == [m EXCEPT !.removals = {}, !.trace = TraceFrom(m.segmentNumber)]

SetCollected(m) ==
    /\ options' = m.options
    /\ firstSegment' = m.firstSegment
    /\ lastSegment' = m.lastSegment
    /\ segmentNumber' = m.segmentNumber
    /\ segs' = m.segs
    /\ disk' = m.disk
    /\ unlinked' = m.unlinked
    /\ removals' = m.removals
    /\ recreated' = m.recreated
    /\ created' = m.created
    /\ synced' = m.synced
    /\ handles' = m.handles
    /\ trace' = m.trace

Set(m) == SetCollected(Collect(m))

(* What NewQueue finds: the folder, and the handles the process holds. *)
Folder(m) == [disk |-> m.disk, unlinked |-> m.unlinked, recreated |-> m.recreated,
              created |-> m.created, synced |-> m.synced, handles |-> m.handles]

EmptyFolder == [disk |-> << >>, unlinked |-> {}, recreated |-> {}, created |-> << >>,
                synced |-> << >>, handles |-> 0]

Options(capacity, flush) ==
    [MaxObjectsPerSegment |-> capacity, AlwaysFlush |-> flush, Converter |-> "StringConverter"]

(* The options with the strict converter. *)
OptionsStrict(capacity, flush) ==
    [Options(capacity, flush) EXCEPT !.Converter = "StrictConverter"]

(***************************************************************************)
(* The calling threads.  pc is where a thread is: "idle" between calls,    *)
(* "lock" at q.mutex.Lock(), "body" with the mutex held, "mid" inside the  *)
(* body.  call is the call in progress, part what the first part of the    *)
(* body left in the thread's locals, expected the result of the call in    *)
(* the reference run.  done counts a thread's calls, owner maps an item to *)
(* the thread that enqueued it, linear says that every call so far         *)
(* returned what the reference run returned.                               *)
(***************************************************************************)
Threads == 1 .. MaxThreads

NoCall == [op |-> "none", k |-> 0, items |-> << >>]

NoPart == [item |-> << >>, ok |-> FALSE, items |-> << >>, err |-> NoErr]

NoThreads ==
    [pc |-> [t \in Threads |-> "idle"], call |-> [t \in Threads |-> NoCall],
     part |-> [t \in Threads |-> NoPart], expected |-> [t \in Threads |-> NoPart],
     done |-> [t \in Threads |-> 0], owner |-> << >>, linear |-> TRUE]

Call(op, n, items, err) ==
    [op |-> op, n |-> n, before |-> LiveItems(M), items |-> items, err |-> err]

InitAt(capacity, withRef, m, err) ==
    /\ options = m.options
    /\ firstSegment = m.firstSegment
    /\ lastSegment = m.lastSegment
    /\ segmentNumber = m.segmentNumber
    /\ segs = m.segs
    /\ disk = m.disk
    /\ unlinked = m.unlinked
    /\ removals = m.removals
    /\ recreated = m.recreated
    /\ created = m.created
    /\ synced = m.synced
    /\ handles = m.handles
    /\ trace = m.trace
    /\ isOpen = TRUE
    /\ opens = 0
    /\ nextItem = 1
    /\ enqueued = << >>
    /\ dequeued = << >>
    /\ last = [op |-> "NewQueue", n |-> capacity, before |-> << >>, items |-> << >>,
               err |-> err]
    /\ ref = IF withRef THEN << m >> ELSE << >>
    /\ refDequeued = << >>
    /\ reopened = << >>
    /\ mutex = 0
    /\ threads = NoThreads

InitOpened(capacity, withRef, r) == InitAt(capacity, withRef, Collect(r.m), r.err)

InitFlush(withRef, flush) ==
    \E capacity \in 1 .. MaxCapacity :
        InitOpened(capacity, withRef, NewQueue(EmptyFolder, Options(capacity, flush)))

InitWith(withRef) == InitFlush(withRef, FALSE)

Init == InitWith(FALSE)

InitRef == InitWith(TRUE)

(* The reference run's step to machine m. *)
RefSet(m) == ref' = << Collect(Entry(m)) >>

EnqueueDone(item, r) ==
    /\ Set(r.m)
    /\ enqueued' = IF r.err = NoErr THEN Append(enqueued, item) ELSE enqueued
    /\ last' = Call("Enqueue", 1, << item >>, r.err)

DoEnqueue ==
    /\ isOpen
    /\ nextItem <= MaxItems
    /\ EnqueueDone(Item(nextItem), Enqueue(Entry(M), Item(nextItem)))
    /\ IF ref = << >> THEN UNCHANGED ref ELSE RefSet(Enqueue(ref[1], Item(nextItem)).m)
    /\ nextItem' = nextItem + 1
    /\ reopened' = << >>
    /\ UNCHANGED << isOpen, opens, dequeued, refDequeued, mutex, threads >>

EnqueueManyDone(items, r) ==
    /\ Set(r.m)
    /\ enqueued' = IF r.err = NoErr THEN enqueued \o items ELSE enqueued
    /\ last' = Call("EnqueueMany", Len(items), items, r.err)

EnqueueManyWith(items) ==
    /\ EnqueueManyDone(items, EnqueueMany(Entry(M), items))
    /\ IF ref = << >> THEN UNCHANGED ref ELSE RefSet(EnqueueEach(ref[1], items).m)

DoEnqueueMany ==
    /\ isOpen
    /\ \E k \in 0 .. MaxBatch :
        /\ nextItem + k - 1 <= MaxItems
        /\ EnqueueManyWith([i \in 1 .. k |-> Item(nextItem + i - 1)])
        /\ nextItem' = nextItem + k
    /\ reopened' = << >>
    /\ UNCHANGED << isOpen, opens, dequeued, refDequeued, mutex, threads >>

DequeueDone(r) ==
    /\ Set(r.m)
    /\ dequeued' = IF r.ok THEN Append(dequeued, r.item) ELSE dequeued
    /\ reopened' = IF reopened # << >> /\ r.ok
                   THEN << [reopened[1] EXCEPT !.got = Append(@, r.item)] >>
                   ELSE reopened
    /\ last' = Call("Dequeue", 1, IF r.ok THEN << r.item >> ELSE << >>, r.err)

RefDequeueDone(s) ==
    /\ RefSet(s.m)
    /\ refDequeued' = IF s.ok THEN Append(refDequeued, s.item) ELSE refDequeued

DoDequeue ==
    /\ isOpen
    /\ DequeueDone(Dequeue(Entry(M)))
    /\ IF ref = << >> THEN UNCHANGED << ref, refDequeued >> ELSE RefDequeueDone(Dequeue(ref[1]))
    /\ UNCHANGED << isOpen, opens, nextItem, enqueued, mutex, threads >>

DequeueManyDone(n, r) ==
    /\ Set(r.m)
    /\ dequeued' = dequeued \o r.items
    /\ last' = Call("DequeueMany", n, r.items, r.err)

RefDequeueManyDone(s) ==
    /\ RefSet(s.m)
    /\ refDequeued' = refDequeued \o s.items

DoDequeueMany ==
    /\ isOpen
    /\ \E n \in 1 .. MaxBatch :
        /\ DequeueManyDone(n, DequeueMany(Entry(M), n))
        /\ IF ref = << >> THEN UNCHANGED << ref, refDequeued >>
                          ELSE RefDequeueManyDone(DequeueEach(ref[1], n))
    /\ reopened' = << >>
    /\ UNCHANGED << isOpen, opens, nextItem, enqueued, mutex, threads >>

CloseDone(r) ==
    /\ Set(r.m)
    /\ last' = Call("Close", IF firstSegment = lastSegment THEN 1 ELSE 2, << >>, r.err)

DoClose ==
    /\ isOpen
    /\ opens < MaxOpens
    /\ CloseDone(Close(Entry(M)))
    /\ IF ref = << >> THEN UNCHANGED ref ELSE RefSet(Close(ref[1]).m)
    /\ isOpen' = FALSE
    /\ reopened' = << >>
    /\ UNCHANGED << opens, nextItem, enqueued, dequeued, refDequeued, mutex, threads >>

OpenDone(capacity, r) ==
    /\ Set([r.m EXCEPT !.trace = TraceFrom(segmentNumber)])
    /\ last' = [op |-> "NewQueue", n |-> capacity, before |-> last.before, items |-> << >>,
                err |-> r.err]

(* NewQueue on the folder of a closed queue, with any capacity option.  A NewQueue that
   fails gives its caller no queue. *)
DoOpen ==
    /\ ~isOpen
    /\ opens < MaxOpens
    /\ \E capacity \in 1 .. MaxCapacity :
        /\ OpenDone(capacity, NewQueue(Folder(M), Options(capacity, options.AlwaysFlush)))
        /\ IF ref = << >> THEN UNCHANGED ref
           ELSE RefSet(NewQueue(Folder(ref[1]), Options(capacity, options.AlwaysFlush)).m)
    /\ isOpen' = (last'.err = NoErr)
    /\ opens' = opens + 1
    /\ reopened' = << [content |-> last.before, got |-> << >>] >>
    /\ UNCHANGED << nextItem, enqueued, dequeued, refDequeued, mutex, threads >>

Next == DoEnqueue \/ DoEnqueueMany \/ DoDequeue \/ DoDequeueMany \/ DoClose \/ DoOpen

Spec == Init /\ [][Next]_vars

(* Single calls only, on a fresh folder. *)
NextSingle == DoEnqueue \/ DoDequeue

SpecSingle == Init /\ [][NextSingle]_vars

(***************************************************************************)
(* A crash: the process ends where it is, between two calls, without       *)
(* Close.  The queue object and the open handles are gone, the files hold  *)
(* the bytes written; then NewQueue on the folder, with any capacity.      *)
(***************************************************************************)
(* The items of the successful enqueues that no dequeue has returned. *)
Pending ==
    SelectSeq(enqueued, LAMBDA x : \A i \in 1 .. Len(dequeued) : dequeued[i] # x)

CrashDone(capacity, r) ==
    /\ Set([r.m EXCEPT !.trace = TraceFrom(segmentNumber)])
    /\ last' = [op |-> "NewQueue", n |-> capacity, before |-> LiveItems(M), items |-> << >>,
                err |-> r.err]

DoCrash ==
    /\ isOpen
    /\ opens < MaxOpens
    /\ \E capacity \in 1 .. MaxCapacity :
           CrashDone(capacity, NewQueue([Folder(M) EXCEPT !.handles = 0],
                                        Options(capacity, options.AlwaysFlush)))
    /\ opens' = opens + 1
    /\ reopened' = << [content |-> Pending, got |-> << >>] >>
    /\ UNCHANGED << isOpen, nextItem, enqueued, dequeued, ref, refDequeued, mutex, threads >>

InitCrash == InitFlush(FALSE, TRUE)

NextCrash == DoEnqueue \/ DoEnqueueMany \/ DoDequeue \/ DoDequeueMany \/ DoCrash

(* AlwaysFlush set, any calls, a crash at any point between them. *)
SpecCrash == InitCrash /\ [][NextCrash]_vars

(***************************************************************************)
(* Threads calling one queue.  A call is four steps: the call is made, the *)
(* thread gets q.mutex, the first part of the body runs, the second part   *)
(* runs and the deferred Unlock releases the mutex.  Enqueue is cut        *)
(* between its rollover check and lastSegment.add, Dequeue between         *)
(* firstSegment.remove and its checks on the head; the other bodies run in *)
(* the first part.  The reference run applies each call whole, in the      *)
(* order in which the threads get the mutex.                               *)
(***************************************************************************)
machine == << options, firstSegment, lastSegment, segmentNumber, segs, disk, unlinked,
              removals, recreated, created, synced, handles, trace >>

Calls ==
    {[op |-> "Enqueue", k |-> 1], [op |-> "Dequeue", k |-> 1], [op |-> "Close", k |-> 0]}
        \cup {[op |-> "EnqueueMany", k |-> k] : k \in 0 .. MaxBatch}
        \cup {[op |-> "DequeueMany", k |-> k] : k \in 1 .. MaxBatch}

IsEnqueue(op) == op \in {"Enqueue", "EnqueueMany"}

(* the results of the whole operations and of their parts, in one shape *)
EnqueueResult(r) == [m |-> r.m, item |-> << >>, ok |-> FALSE, items |-> << >>, err |-> r.err]

DequeueResult(r) ==
    [m |-> r.m, item |-> r.item, ok |-> r.ok,
     items |-> IF r.ok THEN << r.item >> ELSE << >>, err |-> r.err]

DequeueManyResult(r) ==
    [m |-> r.m, item |-> << >>, ok |-> FALSE, items |-> r.items, err |-> r.err]

(* what a thread keeps of a result: all but the queue *)
Kept(r) == [item |-> r.item, ok |-> r.ok, items |-> r.items, err |-> r.err]

(* what a call returns *)
Returned(r) == [items |-> r.items, err |-> r.err]

(* the call applied whole *)
Whole(c, m) ==
    CASE c.op = "Enqueue" -> EnqueueResult(Enqueue(m, c.items[1]))
      [] c.op = "EnqueueMany" -> EnqueueResult(EnqueueMany(m, c.items))
      [] c.op = "Dequeue" -> DequeueResult(Dequeue(m))
      [] c.op = "DequeueMany" -> DequeueManyResult(DequeueMany(m, c.k))
      [] c.op = "Close" -> EnqueueResult(Close(m))

(* the first part of the body *)
FirstPart(c, m) ==
    CASE c.op = "Enqueue" -> EnqueueResult(EnqueueRollover(m))
      [] c.op = "EnqueueMany" -> EnqueueResult(EnqueueMany(m, c.items))
      [] c.op = "Dequeue" -> DequeueResult(remove(m, m.firstSegment))
      [] c.op = "DequeueMany" -> DequeueManyResult(DequeueMany(m, c.k))
      [] c.op = "Close" -> EnqueueResult(Close(m))

(* the second part of the body, with what the first part left in p *)
SecondPart(c, p, m) ==
    CASE c.op = "Enqueue" -> EnqueueResult(EnqueueAdd(c.items[1], [m |-> m, err |-> p.err]))
      [] c.op = "Dequeue" ->
             DequeueResult(DequeueRemoved([m |-> m, item |-> p.item, ok |-> p.ok,
                                           err |-> p.err]))
      [] OTHER -> [m |-> m, item |-> p.item, ok |-> p.ok, items |-> p.items, err |-> p.err]

(* The call is made: its items are numbered in the order of the calls. *)
ThreadCall(t) ==
    /\ threads.pc[t] = "idle"
    /\ threads.done[t] < MaxOps
    /\ \E c \in Calls :
        /\ IsEnqueue(c.op) => nextItem + c.k - 1 <= MaxItems
        /\ threads' =
               [threads EXCEPT
                  !.pc[t] = "lock",
                  !.call[t] = [op |-> c.op, k |-> c.k,
                               items |-> IF IsEnqueue(c.op)
                                         THEN [i \in 1 .. c.k |-> Item(nextItem + i - 1)]
                                         ELSE << >>],
                  !.owner = IF IsEnqueue(c.op)
                            THEN [i \in 1 .. nextItem + c.k - 1 |->
                                     IF i < nextItem THEN threads.owner[i] ELSE t]
                            ELSE @]
        /\ nextItem' = IF IsEnqueue(c.op) THEN nextItem + c.k ELSE nextItem
    /\ UNCHANGED << machine, isOpen, opens, enqueued, dequeued, last, ref, refDequeued,
                    reopened, mutex >>

LockDone(t, e) ==
    /\ RefSet(e.m)
    /\ threads' = [threads EXCEPT !.pc[t] = "body", !.expected[t] = Kept(e)]

(* q.mutex.Lock() returns: the call takes its place in the reference run. *)
ThreadLock(t) ==
    /\ threads.pc[t] = "lock"
    /\ mutex = 0
    /\ mutex' = t
    /\ LockDone(t, Whole(threads.call[t], ref[1]))
    /\ UNCHANGED << machine, isOpen, opens, nextItem, enqueued, dequeued, last, refDequeued,
                    reopened >>

BodyDone(t, p) ==
    /\ Set(p.m)
    /\ threads' = [threads EXCEPT !.pc[t] = "mid", !.part[t] = Kept(p)]
    /\ last' = Call(threads.call[t].op, threads.call[t].k, << >>, NoErr)

ThreadBody(t) ==
    /\ threads.pc[t] = "body"
    /\ BodyDone(t, FirstPart(threads.call[t], Entry(M)))
    /\ UNCHANGED << isOpen, opens, nextItem, enqueued, dequeued, ref, refDequeued, reopened,
                    mutex >>

ReturnDone(t, r) ==
    /\ Set(r.m)
    /\ enqueued' = IF IsEnqueue(threads.call[t].op) /\ r.err = NoErr
                   THEN enqueued \o threads.call[t].items ELSE enqueued
    /\ dequeued' = dequeued \o r.items
    /\ last' = [last EXCEPT !.items = IF IsEnqueue(threads.call[t].op)
                                      THEN threads.call[t].items ELSE r.items,
                            !.err = r.err]
    /\ threads' = [threads EXCEPT
                     !.pc[t] = "idle", !.call[t] = NoCall, !.part[t] = NoPart,
                     !.expected[t] = NoPart, !.done[t] = @ + 1,
                     !.linear = @ /\ Returned(r) = Returned(threads.expected[t])]

(* The rest of the body, the return, and the deferred q.mutex.Unlock(). *)
ThreadReturn(t) ==
    /\ threads.pc[t] = "mid"
    /\ ReturnDone(t, SecondPart(threads.call[t], threads.part[t], M))
    /\ mutex' = 0
    /\ UNCHANGED << isOpen, opens, nextItem, ref, refDequeued, reopened >>

InitThreads == InitFlush(TRUE, FALSE)

NextThreads ==
    \E t \in Threads : ThreadCall(t) \/ ThreadLock(t) \/ ThreadBody(t) \/ ThreadReturn(t)

SpecThreads == InitThreads /\ [][NextThreads]_vars

(***************************************************************************)
(* One segment used directly: add, addMany, remove and removeMany on the    *)
(* segment newSegment created, with no queue above it to bound the count.  *)
(***************************************************************************)
AddDone(items, r) ==
    /\ Set(r.m)
    /\ enqueued' = IF r.err = NoErr THEN enqueued \o items ELSE enqueued
    /\ last' = Call(IF Len(items) = 1 THEN "add" ELSE "addMany", Len(items), items, r.err)

DoAdd ==
    /\ nextItem <= MaxItems
    /\ AddDone(<< Payload(nextItem) >>, add(Entry(M), lastSegment, Payload(nextItem)))
    /\ nextItem' = nextItem + 1
    /\ UNCHANGED << isOpen, opens, dequeued, ref, refDequeued, reopened, mutex, threads >>

DoAddMany ==
    /\ \E k \in 0 .. MaxBatch :
        /\ nextItem + k - 1 <= MaxItems
        /\ AddDone([i \in 1 .. k |-> Payload(nextItem + i - 1)],
                   addMany(Entry(M), lastSegment, [i \in 1 .. k |-> Payload(nextItem + i - 1)]))
        /\ nextItem' = nextItem + k
    /\ UNCHANGED << isOpen, opens, dequeued, ref, refDequeued, reopened, mutex, threads >>

RemoveDone(r) ==
    /\ Set(r.m)
    /\ dequeued' = IF r.ok THEN Append(dequeued, r.item) ELSE dequeued
    /\ last' = Call("remove", 1, IF r.ok THEN << r.item >> ELSE << >>, r.err)

DoRemove ==
    /\ RemoveDone(remove(Entry(M), firstSegment))
    /\ UNCHANGED << isOpen, opens, nextItem, enqueued, ref, refDequeued, reopened, mutex, threads >>

RemoveManyDone(n, r) ==
    /\ Set(r.m)
    /\ dequeued' = dequeued \o r.items
    /\ last' = Call("removeMany", n, r.items, r.err)

DoRemoveMany ==
    /\ \E n \in 0 .. MaxBatch : RemoveManyDone(n, removeMany(Entry(M), firstSegment, n))
    /\ UNCHANGED << isOpen, opens, nextItem, enqueued, ref, refDequeued, reopened, mutex, threads >>

NextSegment == DoAdd \/ DoAddMany \/ DoRemove \/ DoRemoveMany

SpecSegment == Init /\ [][NextSegment]_vars

(***************************************************************************)
(* A segment whose file handle is closed under it: every write to the file *)
(* fails from then on, with the error of os.File.Write on a closed file.   *)
(***************************************************************************)
SegmentCloseDone(r) ==
    /\ Set(r.m)
    /\ last' = Call("close", 0, << >>, r.err)

DoSegmentClose ==
    /\ SegmentCloseDone(segmentClose(Entry(M), lastSegment))
    /\ UNCHANGED << isOpen, opens, nextItem, enqueued, dequeued, ref, refDequeued, reopened,
                    mutex, threads >>

NextFault == DoAdd \/ DoAddMany \/ DoRemove \/ DoRemoveMany \/ DoSegmentClose

(* The segment used directly, with writes that fail once the file is closed. *)
SpecFault == Init /\ [][NextFault]_vars

(***************************************************************************)
(* A queue with the strict converter, and batches holding the string it    *)
(* does not marshal.                                                       *)
(***************************************************************************)
(* The objects of a batch before the first one Marshal rejects. *)
BeforeInvalid(items) ==
    SubSeq(items, 1, SetMin({i \in 1 .. Len(items) : items[i] = Invalid}) - 1)

(* k items with Invalid put in as the i-th object of the batch *)
InvalidBatch(k, i) ==
    [j \in 1 .. k + 1 |-> IF j < i THEN Item(nextItem + j - 1)
                          ELSE IF j = i THEN Invalid
                          ELSE Item(nextItem + j - 2)]

(* enqueued: the objects the queue took, those before the rejected one *)
EnqueueManyInvalidDone(items, r) ==
    /\ Set(r.m)
    /\ enqueued' = IF r.err = NoErr THEN enqueued \o items
                   ELSE enqueued \o BeforeInvalid(items)
    /\ last' = Call("EnqueueMany", Len(items), items, r.err)

DoEnqueueManyInvalid ==
    /\ isOpen
    /\ \E k \in 0 .. MaxBatch - 1 :
        /\ nextItem + k - 1 <= MaxItems
        /\ \E i \in 1 .. k + 1 :
               EnqueueManyInvalidDone(InvalidBatch(k, i),
                                      EnqueueMany(Entry(M), InvalidBatch(k, i)))
        /\ nextItem' = nextItem + k
    /\ reopened' = << >>
    /\ UNCHANGED << isOpen, opens, dequeued, ref, refDequeued, mutex, threads >>

InitStrict ==
    \E capacity \in 1 .. MaxCapacity :
        InitOpened(capacity, FALSE, NewQueue(EmptyFolder, OptionsStrict(capacity, FALSE)))

NextCodec == DoEnqueue \/ DoEnqueueMany \/ DoEnqueueManyInvalid \/ DoDequeue

(* Enqueues and single dequeues on a queue whose converter can fail. *)
SpecCodec == InitStrict /\ [][NextCodec]_vars

(***************************************************************************)
(* The empty string enqueued with the StringConverter, whose Marshal gives *)
(* zero bytes for it.                                                      *)
(***************************************************************************)
Empty == << >>

(* The empty string counts among the MaxItems items of a behaviour. *)
DoEnqueueEmpty ==
    /\ isOpen
    /\ nextItem <= MaxItems
    /\ EnqueueDone(Empty, Enqueue(Entry(M), Empty))
    /\ nextItem' = nextItem + 1
    /\ reopened' = << >>
    /\ UNCHANGED << isOpen, opens, dequeued, ref, refDequeued, mutex, threads >>

DoEnqueueManyEmpty ==
    /\ isOpen
    /\ nextItem + 1 <= MaxItems
    /\ EnqueueManyDone(<< Item(nextItem), Empty >>,
                       EnqueueMany(Entry(M), << Item(nextItem), Empty >>))
    /\ nextItem' = nextItem + 2
    /\ reopened' = << >>
    /\ UNCHANGED << isOpen, opens, dequeued, ref, refDequeued, mutex, threads >>

NextEmpty ==
    DoEnqueue \/ DoEnqueueEmpty \/ DoEnqueueManyEmpty \/ DoDequeue \/ DoClose \/ DoOpen

(* Single calls, empty strings among the items, Close and NewQueue. *)
SpecEmpty == Init /\ [][NextEmpty]_vars

(***************************************************************************)
(* A crash inside Dequeue: the process ends after remove wrote the         *)
(* deletion marker of the head's last item and before deleteSegment        *)
(* (point 1), or after deleteSegment and before closeFullFirstSegment      *)
(* created or read the successor (point 2).  Then NewQueue on the folder.  *)
(***************************************************************************)
(* after remove: the machine where the process ends, when Dequeue goes on to
   closeFullFirstSegment at all *)
DequeueStoppedRemoved(point, r) ==
    IF r.err # NoErr THEN [m |-> r.m, item |-> << >>, reached |-> FALSE]
    ELSE IF count(head(r.m)) > 0 THEN [m |-> r.m, item |-> r.item, reached |-> FALSE]
    ELSE IF countOnDisk(head(r.m)) >= head(r.m).capacity
    THEN [m |-> IF point = 1 THEN r.m ELSE deleteSegment(r.m, r.m.firstSegment).m,
          item |-> r.item, reached |-> TRUE]
    ELSE [m |-> r.m, item |-> r.item, reached |-> FALSE]

DequeueStopped(m, point) == DequeueStoppedRemoved(point, remove(m, m.firstSegment))

(* The item of the interrupted Dequeue is marked removed in the file: it counts as
   dequeued, although no caller got it. *)
DequeueCrashDone(capacity, st, r) ==
    /\ Set([r.m EXCEPT !.trace = TraceFrom(segmentNumber)])
    /\ dequeued' = Append(dequeued, st.item)
    /\ last' = [op |-> "NewQueue", n |-> capacity, before |-> LiveItems(M), items |-> << >>,
                err |-> r.err]
    /\ isOpen' = (r.err = NoErr)

DequeueCrashReopen(capacity, st) ==
    /\ st.reached
    /\ DequeueCrashDone(capacity, st, NewQueue([Folder(st.m) EXCEPT !.handles = 0],
                                               Options(capacity, options.AlwaysFlush)))

DoDequeueCrash ==
    /\ isOpen
    /\ opens < MaxOpens
    /\ \E point \in 1 .. 2 : \E capacity \in 1 .. MaxCapacity :
           DequeueCrashReopen(capacity, DequeueStopped(Entry(M), point))
    /\ opens' = opens + 1
    /\ reopened' = << >>
    /\ UNCHANGED << nextItem, enqueued, ref, refDequeued, mutex, threads >>

NextCrashInside == DoEnqueue \/ DoEnqueueMany \/ DoDequeue \/ DoDequeueCrash

(* AlwaysFlush set, enqueues and single dequeues, one crash inside a Dequeue. *)
SpecCrashInside == InitCrash /\ [][NextCrashInside]_vars

(* Single and batch calls, next to the reference run of single calls. *)
NextBatch == DoEnqueue \/ DoEnqueueMany \/ DoDequeue \/ DoDequeueMany

SpecBatch == InitRef /\ [][NextBatch]_vars

(***************************************************************************)
(* Claims.                                                                 *)
(***************************************************************************)

(* C1: with Enqueue and Dequeue only, on a fresh folder and with any capacity, the
   items returned by the successful Dequeue calls are a prefix of the enqueued items
   in enqueue order. *)
C1_DequeuedIsPrefix == IsPrefix(dequeued, enqueued)

(* Four items were returned in order over at least two head advances. *)
C1_Witness ==
    /\ Len(dequeued) >= 4
    /\ Cardinality(unlinked) >= 2
    /\ last.op = "Dequeue"
    /\ last.err = NoErr

(* C2: every file removal of a call happens on a drained segment: no live item, and
   an on-disk count that has reached the capacity. *)
C2_RemovedOnlyWhenDrained ==
    \A r \in removals : r.count = 0 /\ r.countOnDisk >= r.capacity

(* C3: the items returned with batch calls equal the items returned by the reference
   run, where every EnqueueMany is an Enqueue per item and every DequeueMany(n) is n
   Dequeue calls stopping at the first empty queue. *)
C3_BatchEqualsSingle == dequeued = refDequeued

(* C4: after Close and re-open, the queue holds the content it held before the Close,
   and Dequeue calls return that content in order: what they returned so far is a
   prefix of it, and all of it once Dequeue reports an empty queue. *)
C4_ReopenKeepsContent ==
    reopened # << >> =>
        /\ IsPrefix(reopened[1].got, reopened[1].content)
        /\ reopened[1].got \o LiveItems(M) = reopened[1].content
        /\ (last.op = "Dequeue" /\ last.err = ErrEmpty) => reopened[1].got = reopened[1].content

(* A queue closed with three or more items was re-opened and drained by Dequeue. *)
C4_Witness ==
    /\ reopened # << >>
    /\ Len(reopened[1].content) >= 3
    /\ reopened[1].got = reopened[1].content
    /\ last.op = "Dequeue"
    /\ last.err = ErrEmpty

(* C5: Dequeue reports an empty queue exactly when no segment from head to tail held
   a live item; otherwise it returns the oldest live item without error. *)
C5_EmptyIffNoLiveItem ==
    last.op = "Dequeue" =>
        /\ (last.err = ErrEmpty) <=> (last.before = << >>)
        /\ last.before # << >> => (last.err = NoErr /\ last.items = << Head(last.before) >>)

(* Dequeue returned an item of a later segment after a re-open, the queue holding
   two segments or more. *)
C5_Witness ==
    /\ last.op = "Dequeue"
    /\ last.err = NoErr
    /\ opens >= 1
    /\ unlinked # {}
    /\ segmentCount(M) >= 2

(* C6: Close reports no error and leaves the head's and the tail's file closed. *)
C6_CloseReportsNoError ==
    last.op = "Close" =>
        /\ last.err = NoErr
        /\ head(M).file = "closed"
        /\ tail(M).file = "closed"

(* C7: DequeueMany(n) returns without error the oldest min(n, L) live items in order,
   L being the number of live items in segments head..tail at the call. *)
C7_DequeueManyOldest ==
    last.op = "DequeueMany" =>
        /\ last.err = NoErr
        /\ last.items = Take(last.before, last.n)
        /\ Len(last.items) = Min(last.n, Len(last.before))

(* DequeueMany(3) collected its items from three segments of capacity 1. *)
C7_Witness ==
    /\ last.op = "DequeueMany"
    /\ Len(last.items) = 3
    /\ Cardinality(removals) = 3
    /\ \A r \in removals : r.capacity = 1

(* The capacity in the header of the file numbered n. *)
HeaderCapacity(n) == Uint32(ReadFull(disk[n], 1, 4).data)

Ascending(s) == \A i, j \in 1 .. Len(s) : i < j => s[i][1] < s[j][1]

(* The part of C8 about the capacity: every segment keeps the capacity it was created
   with, whatever the capacity option of a later open: its file header and its loaded
   instance carry it, every file before the tail holds exactly that many item frames
   (rollover), a removed file had reached it (head advance); and a segment created by
   the last call, by a rollover, by an advance from a single segment or by NewQueue on
   an empty folder, was created with the option of the queue that is open now. *)
C8_CapacityKept ==
    /\ \A n \in DOMAIN disk : HeaderCapacity(n) = created[n]
    /\ head(M).capacity = created[head(M).segmentNumber]
    /\ tail(M).capacity = created[tail(M).segmentNumber]
    /\ \A n \in DOMAIN disk :
           n < tail(M).segmentNumber => countOnDisk(segmentLoad(disk, n).seg) = created[n]
    /\ countOnDisk(tail(M)) <= created[tail(M).segmentNumber]
    /\ \A r \in removals : r.capacity = created[r.segmentNumber] /\ r.countOnDisk = r.capacity
    /\ (DOMAIN disk \ DOMAIN created) = {}
    /\ \A i \in 1 .. Len(trace.rollovers) :
           trace.rollovers[i].done =>
               created[trace.rollovers[i].newTail] = options.MaxObjectsPerSegment
    /\ \A i \in 1 .. Len(trace.advances) :
           (trace.advances[i].done /\ trace.advances[i].K = 1) =>
               created[trace.advances[i].headNumber] = options.MaxObjectsPerSegment
    /\ (last.op = "NewQueue" /\ opens = 0) => created[1] = options.MaxObjectsPerSegment

(* The part of C8 about the items: on a queue opened again with another capacity
   option, every call keeps the FIFO order of all items: a dequeue returns the oldest
   items of the content and leaves the rest, an enqueue puts its items behind the
   content, NewQueue finds the content, and the items returned so far are in the order
   they were enqueued. *)
C8_FifoKept ==
    (isOpen /\ opens >= 1
        /\ \E n \in DOMAIN created : created[n] # options.MaxObjectsPerSegment) =>
        /\ Ascending(dequeued)
        /\ last.op \in {"Dequeue", "DequeueMany"} =>
               /\ IsPrefix(last.items, last.before)
               /\ LiveItems(M) = Drop(last.before, Len(last.items))
        /\ last.op \in {"Enqueue", "EnqueueMany"} =>
               LiveItems(M) = last.before \o last.items
        /\ last.op = "NewQueue" => LiveItems(M) = last.before

(* C8: a segment's capacity is fixed when it is created and recovered from its file on
   load: after a re-open with another capacity option the segments created before are
   full or drained against the capacity they were created with, for rollover and for
   head advance, the segments created after use the new option, and the FIFO order of
   all items is kept: no item is skipped or lost. *)
C8_CapacityFixedAtCreation ==
    /\ C8_CapacityKept
    /\ C8_FifoKept

(* After a re-open with another capacity, a segment of the old capacity was removed
   while the tail is a segment created with the new capacity. *)
C8_Witness ==
    /\ opens >= 1
    /\ isOpen
    /\ \E r \in removals : r.capacity # options.MaxObjectsPerSegment
    /\ tail(M).capacity = options.MaxObjectsPerSegment
    /\ count(tail(M)) > 0
    /\ \E n \in DOMAIN disk : created[n] # options.MaxObjectsPerSegment

(* C9: the segment files of the folder are exactly the numbers from the head's to
   the tail's. *)
C9_FilesAreHeadToTail ==
    /\ DOMAIN disk = head(M).segmentNumber .. tail(M).segmentNumber
    /\ Cardinality(DOMAIN disk) = tail(M).segmentNumber - head(M).segmentNumber + 1

(* Three files or more are in the folder after a removal. *)
C9_Witness ==
    /\ Cardinality(DOMAIN disk) >= 3
    /\ unlinked # {}
    /\ isOpen

(* C10: a removed file's number is never used for a file again. *)
C10_NoNumberReused ==
    /\ recreated = {}
    /\ unlinked \cap DOMAIN disk = {}

(* Files were removed before and after a re-open, and a file was created since. *)
C10_Witness ==
    /\ opens >= 1
    /\ isOpen
    /\ Cardinality(unlinked) >= 2
    /\ removals # {}
    /\ \E n \in DOMAIN disk : \A u \in unlinked : n > u

(* With AlwaysFlush, every frame written behind a file's header is durable when the
   call returns. *)
C11_FramesSynced ==
    options.AlwaysFlush =>
        \A n \in DOMAIN disk : synced[n] = Len(disk[n]) \/ Len(disk[n]) <= 4

(* After a crash and re-open, the Dequeue calls return the items enqueued with success
   and not dequeued before the crash, in enqueue order. *)
C11_PendingComesBack ==
    reopened # << >> =>
        /\ IsPrefix(reopened[1].got, reopened[1].content)
        /\ (last.op = "Dequeue" /\ last.err = ErrEmpty) =>
               reopened[1].got = reopened[1].content

(* C11: with AlwaysFlush set, the frames of every returned enqueue are durable, and
   after a crash between two calls and a re-open of the folder, every item enqueued
   with success and not dequeued before the crash is returned by the later Dequeue
   calls, in enqueue order. *)
C11_EnqueuedSurvivesCrash == C11_FramesSynced /\ C11_PendingComesBack

(* The live items of the files of folder d numbered in S, in the order of the numbers. *)
RECURSIVE FilesItems(_, _)
FilesItems(d, S) ==
    IF S = {} THEN << >>
    ELSE segmentLoad(d, SetMin(S)).seg.objects \o FilesItems(d, S \ {SetMin(S)})

Range(s) == {s[i] : i \in 1 .. Len(s)}

(* A queue and its folder without the history of the last call. *)
Stripped(m) == [m EXCEPT !.trace = EmptyTrace, !.removals = {}]

(* At most one thread is inside a body, and it holds the mutex. *)
C12_MutualExclusion ==
    \A t \in Threads :
        threads.pc[t] \in {"body", "mid"} =>
            /\ mutex = t
            /\ \A u \in Threads \ {t} : threads.pc[u] \in {"idle", "lock"}

(* Every call returned what it returns in the reference run, and between calls the
   queue and its folder are as in the reference run. *)
C12_AsSequential ==
    /\ threads.linear
    /\ mutex = 0 => Stripped(Collect(M)) = Stripped(ref[1])

C12_NoItemTwice ==
    \A i, j \in 1 .. Len(dequeued) : i # j => dequeued[i] # dequeued[j]

(* Between calls, every item enqueued with success was returned by a dequeue or is a
   live item of a file of the folder. *)
C12_NoneLost ==
    mutex = 0 => Range(enqueued) \subseteq Range(dequeued) \cup Range(FilesItems(disk, DOMAIN disk))

C12_ProgramOrder ==
    \A i, j \in 1 .. Len(dequeued) :
        (i < j /\ threads.owner[dequeued[i][1]] = threads.owner[dequeued[j][1]]) =>
            dequeued[i][1] < dequeued[j][1]

(* C12: with threads calling Enqueue, EnqueueMany, Dequeue, DequeueMany and Close
   concurrently, each body runs alone under the mutex and the run is a sequential run
   of the calls in the order of the mutex: no item is returned twice, none is lost, and
   a thread's own items are dequeued in the order it enqueued them. *)
C12_ThreadsAsSequential ==
    /\ C12_MutualExclusion
    /\ C12_AsSequential
    /\ C12_NoItemTwice
    /\ C12_NoneLost
    /\ C12_ProgramOrder

(* C13: the head's number is at most the tail's, and when the two numbers are equal the
   head and the tail are one segment instance (the same address), on every open queue. *)
C13_HeadTailOneInstance ==
    isOpen =>
        /\ head(M).segmentNumber <= tail(M).segmentNumber
        /\ head(M).segmentNumber = tail(M).segmentNumber => firstSegment = lastSegment

(* After a re-open, a head advance with the tail next in line made head and tail one
   instance; and a queue re-opened on one file has one instance. *)
C13_Witness ==
    /\ isOpen
    /\ opens >= 1
    /\ firstSegment = lastSegment
    /\ \/ \E i \in 1 .. Len(trace.advances) : trace.advances[i].K = 2
       \/ last.op = "NewQueue" /\ last.before # << >>

(* C14: every segment's live count plus remove count is at most its capacity (the head,
   the tail, and every file of the folder as load reads it), capacities being 1 or more;
   and whenever Enqueue or EnqueueMany appended to the tail in the last call, the tail's
   live count plus remove count was below its capacity at that moment. *)
C14_WithinCapacity ==
    /\ head(M).capacity >= 1 /\ countOnDisk(head(M)) <= head(M).capacity
    /\ tail(M).capacity >= 1 /\ countOnDisk(tail(M)) <= tail(M).capacity
    /\ \A n \in DOMAIN disk :
           countOnDisk(segmentLoad(disk, n).seg) <= segmentLoad(disk, n).seg.capacity
    /\ \A i \in 1 .. Len(trace.appends) :
           trace.appends[i].countOnDisk < trace.appends[i].capacity

(* EnqueueMany appended to two tails, the first of which already held an item, and
   rolled over after each append, the batch ending exactly at the capacity. *)
C14_Witness ==
    /\ last.op = "EnqueueMany"
    /\ last.err = NoErr
    /\ Len(trace.appends) >= 2
    /\ Len(trace.rollovers) >= 2
    /\ trace.appends[1].countOnDisk >= 1
    /\ countOnDisk(tail(M)) = 0

(* C15: on an open queue every segment before the tail holds exactly its capacity in
   item frames (the head instance and the files as load reads them), every segment
   strictly between head and tail holds no deletion marker, and a head that is not the
   tail holds a live item: an empty one was drained and has been advanced. *)
C15_FullBeforeTail ==
    isOpen =>
        /\ \A n \in head(M).segmentNumber .. tail(M).segmentNumber - 1 :
               /\ segmentLoad(disk, n).err = NoErr
               /\ countOnDisk(segmentLoad(disk, n).seg) = segmentLoad(disk, n).seg.capacity
               /\ n > head(M).segmentNumber => segmentLoad(disk, n).seg.removeCount = 0
        /\ firstSegment # lastSegment =>
               /\ countOnDisk(head(M)) = head(M).capacity
               /\ count(head(M)) > 0

(* After a re-open: three segments or more, a head of capacity 2 with one item removed. *)
C15_Witness ==
    /\ isOpen
    /\ opens >= 1
    /\ segmentCount(M) >= 3
    /\ head(M).capacity = 2
    /\ head(M).removeCount = 1
    /\ last.op \in {"Dequeue", "DequeueMany"}

(* The state load reads from a file, as a segment instance with an open handle. *)
AsLoaded(l, n) ==
    [capacity |-> l.seg.capacity, segmentNumber |-> n, file |-> "open",
     removeCount |-> l.seg.removeCount, objects |-> l.seg.objects]

(* C16: every head advance of the last call, from head N with K = tail - N + 1 segments,
   deleted file N and made segment N+1 the head: for K = 1 a new empty segment that is
   head and tail, segmentNumber one more; for K = 2 the tail instance itself; for
   K >= 3 the segment read from file N+1, the tail staying the instance it was. *)
C16_AdvanceCases ==
    \A i \in 1 .. Len(trace.advances) :
        /\ trace.advances[i].done
        /\ trace.advances[i].gone
        /\ trace.advances[i].K = trace.advances[i].tailNumber - trace.advances[i].N + 1
        /\ trace.advances[i].K >= 1
        /\ trace.advances[i].headNumber = trace.advances[i].N + 1
        /\ trace.advances[i].loaded[1].err = NoErr
        /\ trace.advances[i].K = 1 =>
               /\ trace.advances[i].headAfter = trace.advances[i].tailAfter
               /\ trace.advances[i].headAfter # trace.advances[i].tail
               /\ trace.advances[i].headSegment[1].objects = << >>
               /\ trace.advances[i].headSegment[1].removeCount = 0
               /\ trace.advances[i].headSegment[1].file = "open"
               /\ trace.advances[i].segmentNumberAfter = trace.advances[i].segmentNumber + 1
               /\ trace.advances[i].segmentNumberAfter = trace.advances[i].headNumber
        /\ trace.advances[i].K = 2 =>
               /\ trace.advances[i].headAfter = trace.advances[i].tail
               /\ trace.advances[i].tailAfter = trace.advances[i].tail
               /\ trace.advances[i].segmentNumberAfter = trace.advances[i].segmentNumber
        /\ trace.advances[i].K >= 3 =>
               /\ trace.advances[i].headAfter # trace.advances[i].tail
               /\ trace.advances[i].tailAfter = trace.advances[i].tail
               /\ trace.advances[i].headSegment[1] =
                      AsLoaded(trace.advances[i].loaded[1], trace.advances[i].headNumber)
               /\ trace.advances[i].segmentNumberAfter = trace.advances[i].segmentNumber

(* One DequeueMany advanced the head three times: past a middle segment, onto the tail,
   and off the last segment. *)
C16_Witness ==
    /\ last.op = "DequeueMany"
    /\ Len(trace.advances) = 3
    /\ trace.advances[1].K = 3
    /\ trace.advances[2].K = 2
    /\ trace.advances[3].K = 1

(* C17: every rollover of the last call found the tail's on-disk count at its capacity,
   created an empty segment numbered one above the tail as the new tail, left the head
   pointer alone and, when the head was the tail, the head's file open; afterwards
   segmentNumber was the new tail's number.  segmentNumber is the tail's number, and
   over a call it grows by one per rollover and per advance off the only segment, and
   by nothing else; a re-open gives the number the queue had. *)
C17_RolloverAndNumbering ==
    /\ \A i \in 1 .. Len(trace.rollovers) :
           /\ trace.rollovers[i].done
           /\ trace.rollovers[i].countOnDisk >= trace.rollovers[i].capacity
           /\ trace.rollovers[i].newTail = trace.rollovers[i].tail + 1
           /\ trace.rollovers[i].newTailCount = 0
           /\ trace.rollovers[i].headAfter = trace.rollovers[i].head
           /\ trace.rollovers[i].same => trace.rollovers[i].headFile = "open"
           /\ trace.rollovers[i].segmentNumberAfter = trace.rollovers[i].newTail
           /\ trace.rollovers[i].segmentNumberAfter = trace.rollovers[i].segmentNumber + 1
    /\ segmentNumber = tail(M).segmentNumber
    /\ last.op # "NewQueue" =>
           segmentNumber = trace.start + Len(trace.rollovers)
                           + Cardinality({i \in 1 .. Len(trace.advances) :
                                              trace.advances[i].K = 1})
    /\ (last.op = "NewQueue" /\ opens >= 1) => segmentNumber = trace.start
    /\ segmentNumber >= trace.start

(* One EnqueueMany rolled over twice: off a tail that was the head, then off a tail of
   its own, after items were removed from that head. *)
C17_Witness ==
    /\ last.op = "EnqueueMany"
    /\ Len(trace.rollovers) >= 2
    /\ trace.rollovers[1].same
    /\ ~trace.rollovers[2].same
    /\ head(M).removeCount >= 1
    /\ head(M).file = "open"

(* C18: on an open queue, after every call, the head's and the tail's file are open and
   no other handle is: the process holds one handle when head and tail are one
   instance and two otherwise. *)
C18_OnlyHeadAndTailOpen ==
    isOpen =>
        /\ head(M).file = "open"
        /\ tail(M).file = "open"
        /\ handles = Cardinality({firstSegment, lastSegment})

(* After a re-open, a call rolled over off a tail that was not the head, files having
   been deleted: three segments or more, two handles. *)
C18_Witness ==
    /\ isOpen
    /\ opens >= 1
    /\ unlinked # {}
    /\ segmentCount(M) >= 3
    /\ handles = 2
    /\ \E i \in 1 .. Len(trace.rollovers) : ~trace.rollovers[i].same

(* C19: for the head and the tail instance, load of the segment's file gives no error
   and exactly the instance's state: the same objects in the same order, the same
   removeCount, the same capacity; the objects are the items added less the first
   removeCount of them, the Kth deletion marker having removed the Kth item added. *)
C19_LoadReconstructs ==
    \A a \in {firstSegment, lastSegment} :
        (segs[a].file = "open" /\ segs[a].segmentNumber \in DOMAIN disk) =>
            /\ segmentLoad(disk, segs[a].segmentNumber).err = NoErr
            /\ segmentLoad(disk, segs[a].segmentNumber).seg =
                   [capacity |-> segs[a].capacity, objects |-> segs[a].objects,
                    removeCount |-> segs[a].removeCount]
            /\ firstSegment = lastSegment =>
                   /\ segs[a].removeCount = Len(dequeued)
                   /\ segs[a].objects = Drop(enqueued, segs[a].removeCount)

(* A segment written by add, addMany, remove and removeMany beyond its capacity, with
   payloads of both lengths, items removed one by one and in a batch, items left. *)
C19_Witness ==
    /\ last.op = "removeMany"
    /\ Len(last.items) >= 2
    /\ head(M).removeCount >= 3
    /\ Len(head(M).objects) >= 1
    /\ countOnDisk(head(M)) > head(M).capacity
    /\ \E i, j \in 1 .. Len(enqueued) : Len(enqueued[i]) # Len(enqueued[j])

(* C20: a Dequeue or DequeueMany step taken on an open queue with no live item changes
   nothing: the pointers, segmentNumber, the instances with their objects and counts,
   the files of the folder byte for byte, the durable lengths and the open handles are
   as before, no file was removed or created, and no item is returned. *)
C20_EmptyDequeueChangesNothing ==
    [][(last'.op \in {"Dequeue", "DequeueMany"} /\ isOpen /\ LiveItems(M) = << >>) =>
           /\ UNCHANGED << firstSegment, lastSegment, segmentNumber, segs, disk, synced,
                           handles, unlinked, created, recreated, dequeued >>
           /\ removals' = {}
           /\ trace'.advances = << >>
           /\ trace'.rollovers = << >>
           /\ last'.items = << >>]_vars

(* DequeueMany was called on a queue emptied before: after a re-open, files deleted. *)
C20_Witness ==
    /\ last.op = "DequeueMany"
    /\ last.before = << >>
    /\ last.items = << >>
    /\ last.err = NoErr
    /\ isOpen
    /\ opens >= 1
    /\ unlinked # {}

(* The part of C21 about the empty list, as a step: an EnqueueMany of no item leaves the
   pointers, segmentNumber, the instances, the files byte for byte, the durable lengths
   and the open handles as they were. *)
C21_EmptyListChangesNothing ==
    [][(last'.op = "EnqueueMany" /\ last'.err = NoErr /\ isOpen /\ last'.n = 0) =>
           UNCHANGED << firstSegment, lastSegment, segmentNumber, segs, disk, synced,
                        handles, unlinked, created, recreated, enqueued >>]_vars

(* C21: a successful EnqueueMany of at least one item appends only to a tail with room,
   no appended file holds more frames than its capacity, every rollover happens with
   the tail at capacity, the content afterwards is the content before followed by the
   batch in input order, and the tail is left strictly below its capacity; an
   EnqueueMany of the empty list appends nothing, rolls over nothing and leaves the
   content and segmentNumber as they were. *)
C21_EnqueueManySplits ==
    (last.op = "EnqueueMany" /\ last.err = NoErr) =>
        /\ LiveItems(M) = last.before \o last.items
        /\ \A i \in 1 .. Len(trace.appends) :
               /\ trace.appends[i].countOnDisk < trace.appends[i].capacity
               /\ countOnDisk(segmentLoad(disk, trace.appends[i].segmentNumber).seg)
                      <= trace.appends[i].capacity
        /\ \A i \in 1 .. Len(trace.rollovers) :
               /\ trace.rollovers[i].done
               /\ trace.rollovers[i].countOnDisk >= trace.rollovers[i].capacity
        /\ IF last.n = 0
           THEN /\ trace.appends = << >>
                /\ trace.rollovers = << >>
                /\ trace.start = segmentNumber
                /\ removals = {}
           ELSE /\ countOnDisk(tail(M)) < tail(M).capacity
                /\ trace.appends # << >>

(* A batch of three was split over two tails and ended on a boundary: the second tail
   was filled, and a fresh empty tail was created. *)
C21_Witness ==
    /\ last.op = "EnqueueMany"
    /\ last.err = NoErr
    /\ last.n = 3
    /\ Len(trace.appends) = 2
    /\ Len(trace.rollovers) = 2
    /\ countOnDisk(tail(M)) = 0
    /\ tail(M).capacity = 2

(* C22: after an add, addMany, remove or removeMany that failed on a write to the file,
   the objects in memory are the objects before the call, and objects and removeCount
   are what the frames of the file give: no object is dropped from memory while it is
   live on disk. *)
C22_FailedWriteKeepsMemory ==
    (last.op \in {"add", "addMany", "remove", "removeMany"} /\ last.err = ErrFileClosed) =>
        /\ head(M).objects = last.before
        /\ segmentLoad(disk, head(M).segmentNumber).err = NoErr
        /\ segmentLoad(disk, head(M).segmentNumber).seg.objects = head(M).objects
        /\ segmentLoad(disk, head(M).segmentNumber).seg.removeCount = head(M).removeCount

(* The part of C22 about add and addMany alone. *)
C22_FailedAddKeepsMemory ==
    (last.op \in {"add", "addMany"} /\ last.err = ErrFileClosed) =>
        head(M).objects = last.before

(* C23: an EnqueueMany whose batch holds an object Marshal rejects returns the error of
   Marshal; the content of the queue is then the content before the call followed by
   the objects of the batch before the rejected one, in input order; the files load
   without error and hold exactly these items, so no byte was written for the rejected
   object or a later one; and the dequeues return the items in the order the queue
   took them, what is left being the content of the queue. *)
C23_MarshalFailureKeepsPrefix ==
    /\ IsPrefix(dequeued, enqueued)
    /\ LiveItems(M) = Drop(enqueued, Len(dequeued))
    /\ (last.op = "EnqueueMany" /\ Invalid \in Range(last.items)) =>
           /\ last.err = ErrMarshal
           /\ LiveItems(M) = last.before \o BeforeInvalid(last.items)
           /\ \A n \in DOMAIN disk : segmentLoad(disk, n).err = NoErr
           /\ FilesItems(disk, DOMAIN disk) = LiveItems(M)
           /\ Invalid \notin Range(LiveItems(M))

(* A batch of three on a queue with content: its first object filled the tail, its
   second went to the new tail, its third was rejected by Marshal. *)
C23_Witness ==
    /\ last.op = "EnqueueMany"
    /\ last.err = ErrMarshal
    /\ last.n = 3
    /\ last.items[3] = Invalid
    /\ last.before # << >>
    /\ Len(trace.rollovers) = 1
    /\ Len(trace.appends) = 2
    /\ Len(tail(M).objects) = 1

(* The frames of a file after its header: the number of frames with length 0. *)
RECURSIVE ZeroFrames(_, _)
ZeroFrames(bytes, pos) ==
    IF pos + 3 > Len(bytes) THEN 0
    ELSE IF Uint32(SubSeq(bytes, pos, pos + 3)) = 0
         THEN 1 + ZeroFrames(bytes, pos + 4)
         ELSE ZeroFrames(bytes, pos + 4 + Uint32(SubSeq(bytes, pos, pos + 3)))

(* C24: an Enqueue or EnqueueMany of an item whose marshalled form is empty returns an
   error and leaves the content of the queue as it was; no frame of length 0 is written
   for an item, so the frames of length 0 in the file of the head are its deletion
   markers and no more, and a NewQueue on the folder finds the content the queue had. *)
C24_ZeroLengthItemRejected ==
    /\ (last.op \in {"Enqueue", "EnqueueMany"} /\ Empty \in Range(last.items)) =>
           /\ last.err # NoErr
           /\ Empty \notin Range(LiveItems(M))
    /\ (isOpen /\ head(M).segmentNumber \in DOMAIN disk) =>
           ZeroFrames(disk[head(M).segmentNumber], 5) = head(M).removeCount
    /\ (last.op = "NewQueue" /\ opens >= 1) =>
           /\ last.err = NoErr
           /\ LiveItems(M) = last.before

(* The part of C24 about a NewQueue after the empty string was enqueued. *)
C24_ReopenAfterEmptyItem ==
    (last.op = "NewQueue" /\ opens >= 1) =>
        /\ last.err = NoErr
        /\ LiveItems(M) = last.before

(* The part of C25 about NewQueue: it succeeds after the crash. *)
C25_ReopenSucceeds == last.op = "NewQueue" => last.err = NoErr

(* The part of C25 about order: the dequeues return the items in the order enqueued. *)
C25_FifoKept == IsPrefix(dequeued, enqueued)

(* The part of C25 about queue_empty: no Dequeue reports it while a file of the folder
   holds a live item. *)
C25_NoFalseEmpty ==
    (last.op = "Dequeue" /\ last.err = ErrEmpty) =>
        \A n \in DOMAIN disk : segmentLoad(disk, n).seg.objects = << >>

(* C25: after a crash inside a Dequeue, between the write of the deletion marker and the
   removal of the drained head file or between the removal and the creation or opening
   of the successor, NewQueue succeeds, the later dequeues return the items not
   dequeued before in the order they were enqueued, and none reports an empty queue
   while a segment file holds a live item. *)
C25_CrashInsideDequeueRecovers ==
    /\ C25_ReopenSucceeds
    /\ C25_FifoKept
    /\ C25_NoFalseEmpty

(* C26: every EnqueueMany and every DequeueMany(n) with n >= 1 returns, without error,
   after a bounded number of rounds: an EnqueueMany of k items appends in at most k
   rounds and rolls over at most k div capacity + 1 times, and a DequeueMany advances
   the head at most once per segment the queue had when it was called, each advance
   removing the file of a different segment. *)
C26_BatchLoopsBounded ==
    /\ last.op = "EnqueueMany" =>
           /\ last.err = NoErr
           /\ Len(trace.appends) <= last.n
           /\ Len(trace.rollovers) <= (last.n \div options.MaxObjectsPerSegment) + 1
           /\ \A i \in 1 .. Len(trace.rollovers) : trace.rollovers[i].done
    /\ last.op = "DequeueMany" =>
           /\ last.err = NoErr
           /\ last.n >= 1
           /\ \A i \in 1 .. Len(trace.advances) :
                  /\ trace.advances[i].done
                  /\ Len(trace.advances) <= trace.advances[1].K
                  /\ \A j \in 1 .. Len(trace.advances) :
                         i < j => trace.advances[i].N < trace.advances[j].N

(* A DequeueMany that advanced the head twice, over the two segments the queue had. *)
C26_Witness ==
    /\ last.op = "DequeueMany"
    /\ last.err = NoErr
    /\ Len(trace.advances) = 2
    /\ trace.advances[1].K = 2
    /\ Len(last.items) >= 2

=============================================================================
